---- MODULE Spec2Model ----
(***************************************************************************)
(* Model of src/app2.py, the sales analysis dashboard script.              *)
(*                                                                         *)
(* The script is re-run from top to bottom on every user interaction       *)
(* (adding or removing an uploaded file, changing a multiselect, editing   *)
(* the vendor-mapping text).  The state is the widget state that survives  *)
(* between runs together with everything the last run produced.  Each      *)
(* action changes one widget and performs the whole run.                   *)
(*                                                                         *)
(* Money is a fixed-point integer in units of 1/200 shilling (KES units    *)
(* make one shilling), so that the 1%, 0.5% and 16% rates are exact on     *)
(* whole-shilling amounts; the rounding of binary floating point is not    *)
(* modelled.                                                               *)
(* A cell that pandas holds as NaN/NaT is None (<<>>); a present value v   *)
(* is Some(v) (<<v>>).                                                     *)
(***************************************************************************)
EXTENDS Integers, Sequences, FiniteSets, TLC

VARIABLES
    uploaded_files,     \* value of st.file_uploader: sequence of files
    selected_channels,  \* value of the channel-type multiselect
    selected_vids,      \* value of the vendor-id multiselect
    mapping_input,      \* value of the vendor-mapping text area
    out                 \* everything the last run of the script produced

vars == <<uploaded_files, selected_channels, selected_vids, mapping_input, out>>

-----------------------------------------------------------------------------
(* Bounds *)

MaxFiles == 2
MaxRows == 3

-----------------------------------------------------------------------------
(* Values *)

None == <<>>
Some(v) == <<v>>

KES == 200

expected_columns == {"Date", "Amount", "Commission", "Vat", "Vid", "Channel Type"}

Vendlite == 254499
VendorX == 254754

Row(ch, amt, com, vat, vid, date) ==
    [channel |-> ch, amount |-> amt, commission |-> com, vat |-> vat,
     vid |-> vid, date |-> date]

\* The rows that uploaded tables are made of, after the coercion of
\* lines 103-112 (unparseable cells are None).
RowUniverse ==
    << Row(Some("C2B"), Some(1000 * KES), Some(0), Some(0), Some(Vendlite), Some(1)),
       Row(Some("REFUND"), Some(-200 * KES), Some(0), Some(0), Some(Vendlite), Some(1)),
       Row(Some("BANKCOST"), None, Some(5 * KES), Some(10 * KES), Some(Vendlite), Some(2)),
       Row(Some("C2B"), Some(500 * KES), Some(2 * KES), None, Some(VendorX), None) >>

\* A well-formed upload: all required columns and a run of consecutive rows
\* of RowUniverse, possibly no row at all (a header-only table).  MaxRows
\* bounds the rows of the whole batch (see AddFile).
GoodFiles ==
    { [columns |-> expected_columns, rows |-> SubSeq(RowUniverse, a, b)] :
        a \in 1..Len(RowUniverse), b \in 0..Len(RowUniverse) }

\* An upload that lacks one required column.
BadFiles ==
    { [columns |-> expected_columns \ {c}, rows |-> <<RowUniverse[1]>>] :
        c \in {"Vid", "Channel Type"} }

Files == GoodFiles \cup BadFiles

\* The texts the user may leave in the mapping text area.
DefaultMappingText == "{\"254499\": \"Vendlite\"}"
MappingTexts ==
    { DefaultMappingText,
      "",
      "{254499: " }

-----------------------------------------------------------------------------
(* pandas helpers *)

Abs(x) == IF x < 0 THEN -x ELSE x

RECURSIVE Concat(_)
\* pd.concat(dfs, ignore_index=True)
Concat(dfs) == IF dfs = <<>> THEN <<>> ELSE Head(dfs) \o Concat(Tail(dfs))

RECURSIVE Sum(_, _)
\* Series.sum(): NaN cells are skipped, the sum of nothing is 0
Sum(df, col) ==
    IF df = <<>> THEN 0
    ELSE (IF Head(df)[col] = None THEN 0 ELSE Head(df)[col][1]) + Sum(Tail(df), col)

\* df[df['Channel Type'] == ch]
WhereChannel(df, ch) == SelectSeq(df, LAMBDA r : r.channel = Some(ch))

\* df[col].dropna().unique()
Unique(df, col) == { df[i][col][1] : i \in { j \in 1..Len(df) : df[j][col] # None } }

\* len(df[col].unique()): NaN/NaT counts as one more value
UniqueLen(df, col) ==
    Cardinality(Unique(df, col)) + (IF \E i \in 1..Len(df) : df[i][col] = None THEN 1 ELSE 0)

\* df.groupby('Date_only')['Amount'].sum(): rows without a date are dropped
GroupByDate(df) ==
    [ d \in Unique(df, "date") |->
        Sum(SelectSeq(df, LAMBDA r : r.date = Some(d)), "amount") ]

RECURSIVE SumOver(_, _)
SumOver(f, S) ==
    IF S = {} THEN 0
    ELSE LET x == CHOOSE y \in S : TRUE IN f[x] + SumOver(f, S \ {x})

\* Series.mean() as the fraction num/den; den = 0 is NaN (mean of nothing)
Mean(series) == [num |-> SumOver(series, DOMAIN series), den |-> Cardinality(DOMAIN series)]

Min(S) == CHOOSE x \in S : \A y \in S : x <= y
Max(S) == CHOOSE x \in S : \A y \in S : x >= y

\* astype(str) on the vendor ids that occur
Str(v) == IF v = Vendlite THEN "254499" ELSE IF v = VendorX THEN "254754" ELSE "?"

-----------------------------------------------------------------------------
(* Lines 84-100: load and validate *)

RECURSIVE LoadLoop_skip(_, _, _)
\* variant: a file lacking a column is left out and the loop goes on
LoadLoop_skip(files, i, dfs) ==
    IF i > Len(files) THEN [stop_at |-> 0, dfs |-> dfs]
    ELSE IF ~ (\A col \in expected_columns : col \in files[i].columns)
         THEN LoadLoop_skip(files, i + 1, dfs)
         ELSE LoadLoop_skip(files, i + 1, Append(dfs, files[i].rows))

RECURSIVE LoadLoop(_, _, _)
\* the for loop of lines 87-93; stop_at is the index of the file named by
\* st.error before st.stop(), 0 if the loop ran to its end
LoadLoop(files, i, dfs) ==
    IF i > Len(files) THEN [stop_at |-> 0, dfs |-> dfs]
    ELSE IF ~ (\A col \in expected_columns : col \in files[i].columns)
         THEN [stop_at |-> i, dfs |-> dfs]
         ELSE LoadLoop(files, i + 1, Append(dfs, files[i].rows))

\* options of the two multiselects (lines 118 and 127)
channel_types(df) == Unique(df, "channel")
vids(df) == Unique(df, "vid")

-----------------------------------------------------------------------------
(* Lines 143-158: the two views and the vendor mapping *)

\* line 144: df[df['Vid'].isin(selected_vids)]; reached only for a non-empty
\* selection (df[True] raises KeyError, see Run)
metrics_df(df, sel_vids) ==
    SelectSeq(df, LAMBDA r : r.vid # None /\ r.vid[1] \in sel_vids)

\* variant: the channel-type filter is not applied
filtered_df_all(mdf, sel_channels) == mdf

\* line 147
filtered_df(mdf, sel_channels) ==
    SelectSeq(mdf, LAMBDA r : r.channel # None /\ r.channel[1] \in sel_channels)

default_vendor_map == { [ktype |-> "int", key |-> "254499", name |-> "Vendlite"] }

\* eval(mapping_input) on the texts of MappingTexts: a dict (set of entries)
\* or an exception
Eval(text) ==
    CASE text = "{\"254499\": \"Vendlite\"}" ->
           [kind |-> "dict",
            dict |-> { [ktype |-> "str", key |-> "254499", name |-> "Vendlite"] }]
      [] OTHER -> [kind |-> "raises", dict |-> {}]

\* mapping_input.strip() is empty
IsBlank(text) == text \in {"", " "}

\* df['Vid'].map(vendor_map).fillna(df['Vid'].astype(str)) for one vendor id
VendorName(dict, vid) ==
    IF vid = None THEN "nan"
    ELSE IF \E e \in dict : e.ktype = "int" /\ e.key = Str(vid[1])
         THEN (CHOOSE e \in dict : e.ktype = "int" /\ e.key = Str(vid[1])).name
         ELSE Str(vid[1])

\* the frame with its 'Vendor Name' column
WithVendorName(df, dict) ==
    [ i \in 1..Len(df) |->
        [channel |-> df[i].channel, amount |-> df[i].amount,
         commission |-> df[i].commission, vat |-> df[i].vat, vid |-> df[i].vid,
         date |-> df[i].date, vendor_name |-> VendorName(dict, df[i].vid)] ]

\* variant: a blank text gives the default mapping
ParseMapping_blank_default(text) ==
    IF IsBlank(text) \/ Eval(text).kind = "raises"
    THEN [vendor_map |-> default_vendor_map, warning |-> ~ IsBlank(text)]
    ELSE [vendor_map |-> Eval(text).dict, warning |-> FALSE]

\* lines 150-158: the try/except around the mapping
ParseMapping(text) ==
    LET value == IF IsBlank(text) THEN [kind |-> "dict", dict |-> {}] ELSE Eval(text)
    IN  IF value.kind = "raises"
        THEN [vendor_map |-> default_vendor_map, warning |-> TRUE]
        ELSE [vendor_map |-> value.dict, warning |-> FALSE]

-----------------------------------------------------------------------------
(* Lines 160-236: the figures of the two views *)

BankChargePerFile == 50
VatBankTransferPct == 16
NayaxPct == 1
BckPerMille == 5

\* variant: one charge for the whole batch
bank_transfer_charges_flat(n) == BankChargePerFile * KES

\* line 167: fixed charge per uploaded file
bank_transfer_charges(n) == BankChargePerFile * KES * n

\* variant: one charge per BANKCOST row of the report view
report_bank_transfer_charges_per_row(fdf, n) ==
    BankChargePerFile * KES * n * Len(SelectSeq(fdf, LAMBDA r : r.channel = Some("BANKCOST")))

\* line 227: charged only if the report view holds a BANKCOST row
report_bank_transfer_charges(fdf, n) ==
    IF \E i \in 1..Len(fdf) : fdf[i].channel = Some("BANKCOST")
    THEN BankChargePerFile * KES * n ELSE 0

\* lines 185-190: the figure behind the "Avg Daily Revenue" tile
avg_daily(mdf) ==
    IF UniqueLen(mdf, "date") > 0 THEN Mean(GroupByDate(mdf))
    ELSE [num |-> 0, den |-> 1]

\* lines 165-176: the figures of the metrics view; every uploaded file is
\* charged
amount_to_remit(mdf, n) ==
    LET c2b_metrics == WhereChannel(mdf, "C2B")
        total_revenue == Sum(c2b_metrics, "amount")
        total_refunds == Abs(Sum(WhereChannel(mdf, "REFUND"), "amount"))
        charges == bank_transfer_charges(n)
        vat_bank_transfer == (charges * VatBankTransferPct) \div 100
        nayax_commission == (Sum(c2b_metrics, "amount") * NayaxPct) \div 100
        bck_commission == (Sum(c2b_metrics, "amount") * BckPerMille) \div 1000
        ipay_commission == Sum(mdf, "commission")
        total_vat == Sum(mdf, "vat")
    IN  [total_revenue |-> total_revenue,
         total_refunds |-> total_refunds,
         bank_transfer_charges |-> charges,
         vat_bank_transfer |-> vat_bank_transfer,
         nayax_commission |-> nayax_commission,
         bck_commission |-> bck_commission,
         ipay_commission |-> ipay_commission,
         total_vat |-> total_vat,
         amount_to_remit |->
             total_revenue - (total_refunds + ipay_commission + charges
                              + vat_bank_transfer + nayax_commission
                              + bck_commission + total_vat)]

\* lines 225-236: the figures of the report view
report_amount_to_remit(fdf, n) ==
    LET c2b_filtered == WhereChannel(fdf, "C2B")
        report_total_revenue == Sum(c2b_filtered, "amount")
        report_total_refunds == Abs(Sum(WhereChannel(fdf, "REFUND"), "amount"))
        report_charges == report_bank_transfer_charges(fdf, n)
        report_vat_bank_transfer == (report_charges * VatBankTransferPct) \div 100
        report_nayax_commission == (Sum(c2b_filtered, "amount") * NayaxPct) \div 100
        report_bck_commission == (Sum(c2b_filtered, "amount") * BckPerMille) \div 1000
        report_ipay_commission == Sum(fdf, "commission")
        report_total_vat == Sum(fdf, "vat")
    IN  [total_revenue |-> report_total_revenue,
         total_refunds |-> report_total_refunds,
         bank_transfer_charges |-> report_charges,
         vat_bank_transfer |-> report_vat_bank_transfer,
         nayax_commission |-> report_nayax_commission,
         bck_commission |-> report_bck_commission,
         ipay_commission |-> report_ipay_commission,
         total_vat |-> report_total_vat,
         amount_to_remit |->
             report_total_revenue -
                (report_total_refunds + report_ipay_commission + report_charges
                 + report_vat_bank_transfer + report_nayax_commission
                 + report_bck_commission + report_total_vat)]

\* lines 164-197: the key metrics (metrics view)
Metrics(mdf, n) ==
    [figures |-> amount_to_remit(mdf, n),
     avg_daily |-> avg_daily(mdf),
     total_trans |-> Len(WhereChannel(mdf, "C2B"))]

\* line 220: min()/max() of the object column Date_only.  With a NaT in the
\* column pandas either skips it or raises TypeError, depending on the
\* version; nat_min_raises is the environment's choice.
DateRangeRaises(fdf, nat_min_raises) ==
    /\ fdf # <<>>
    /\ nat_min_raises
    /\ \E i \in 1..Len(fdf) : fdf[i].date = None

date_range(fdf) ==
    IF fdf = <<>> THEN [kind |-> "N/A", min |-> 0, max |-> 0]
    ELSE IF Unique(fdf, "date") = {} THEN [kind |-> "NaT", min |-> 0, max |-> 0]
    ELSE [kind |-> "range", min |-> Min(Unique(fdf, "date")),
          max |-> Max(Unique(fdf, "date"))]

\* line 222
filters_applied(sel_channels, sel_vids) ==
    [channel_types |-> IF sel_channels # {} THEN sel_channels ELSE {"All"},
     vendor_ids |-> IF sel_vids # {} THEN { Str(v) : v \in sel_vids } ELSE {"All"}]

\* lines 220-270: the downloadable report (report view)
Report(fdf, n, sel_channels, sel_vids) ==
    [date_range |-> date_range(fdf),
     filters_applied |-> filters_applied(sel_channels, sel_vids),
     figures |-> report_amount_to_remit(fdf, n)]

\* lines 297-300: per-day sums of the report view with their running total
daily_revenue(fdf) ==
    LET daily == GroupByDate(fdf)
    IN  [ d \in DOMAIN daily |->
            [amount |-> daily[d],
             cumulative |-> SumOver(daily, { e \in DOMAIN daily : e <= d })] ]

\* line 341: C2B amount per vendor name
vendor_rev(c2b) ==
    [ name \in { c2b[i].vendor_name : i \in 1..Len(c2b) } |->
        Sum(SelectSeq(c2b, LAMBDA r : r.vendor_name = name), "amount") ]

-----------------------------------------------------------------------------
(* One run of the script, lines 82-377 *)

\* what a run shows when it has produced nothing yet
Nothing ==
    [outcome |-> "idle",          \* idle, stopped (st.stop), error (except), done
     schema_error_file |-> 0,      \* index of the file named by line 91
     no_valid_data |-> FALSE,      \* st.error of line 99
     exception |-> "",             \* what the handler of line 366 caught
     file_count |-> 0,             \* len(dfs)
     channel_types |-> {},         \* options of the multiselect of line 119
     vids |-> {},                  \* options of the multiselect of line 128
     mapping_warning |-> FALSE,    \* st.sidebar.error of line 155
     vendor_map |-> None,
     metrics_df |-> None,
     filtered_df |-> None,
     metrics |-> None,             \* the tiles of lines 179-215
     report |-> None,              \* report_df and its download button
     no_data_info |-> FALSE,       \* st.info of line 315
     cumulative_chart |-> None,
     daily_chart |-> None,
     vendor_pie |-> None,
     filtered_table |-> None]

\* lines 294-364, after the report has been built
Charts(o, fdf) ==
    LET c2b_filtered == WhereChannel(fdf, "C2B")
        daily == daily_revenue(fdf)
    IN  IF Len(fdf) > 0
        THEN [o EXCEPT
                !.cumulative_chart = Some(daily),
                !.daily_chart = IF DOMAIN daily # {} THEN Some(daily) ELSE None,
                !.vendor_pie = IF Len(c2b_filtered) > 0
                               THEN Some(vendor_rev(c2b_filtered)) ELSE None,
                !.filtered_table = Some(fdf),
                !.outcome = "done"]
        ELSE \* line 315, then line 323 reads daily_revenue, which is bound
             \* only inside the if of line 296: NameError
             [o EXCEPT !.no_data_info = TRUE,
                       !.outcome = "error", !.exception = "NameError"]

\* lines 143-158: both views with their 'Vendor Name' column
Views(df, sel_channels, sel_vids, text) ==
    LET mdf == metrics_df(df, sel_vids)
        fdf == filtered_df(mdf, sel_channels)
        parsed == ParseMapping(text)
    IN  [metrics_df |-> WithVendorName(mdf, parsed.vendor_map),
         filtered_df |-> WithVendorName(fdf, parsed.vendor_map),
         vendor_map |-> parsed.vendor_map,
         warning |-> parsed.warning]

\* variant: the key metrics are computed from the report view
KeyMetrics_filtered(views, n) == Metrics(views.filtered_df, n)

\* lines 160-215: the key metrics are computed from metrics_df
KeyMetrics(views, n) == Metrics(views.metrics_df, n)

\* lines 102-364, once the files are loaded: the set of results the run may
\* produce (two where the pandas version decides, one otherwise)
Compute(df, n, sel_channels, sel_vids, text) ==
    LET o0 == [Nothing EXCEPT !.file_count = n,
                              !.channel_types = channel_types(df),
                              !.vids = vids(df)]
    IN  IF sel_vids = {}
        THEN \* line 144: df[True] is a column lookup, KeyError
             { [o0 EXCEPT !.outcome = "error", !.exception = "KeyError"] }
        ELSE
        LET views == Views(df, sel_channels, sel_vids, text)
            fdf == views.filtered_df
            o1 == [o0 EXCEPT !.mapping_warning = views.warning,
                             !.vendor_map = Some(views.vendor_map),
                             !.metrics_df = Some(views.metrics_df),
                             !.filtered_df = Some(fdf),
                             !.metrics = Some(KeyMetrics(views, n))]
        IN  { Charts([o1 EXCEPT !.report =
                         Some(Report(fdf, n, sel_channels, sel_vids))], fdf) :
                raises \in { b \in BOOLEAN : ~ DateRangeRaises(fdf, b) } }
            \cup
            { [o1 EXCEPT !.outcome = "error", !.exception = "TypeError"] :
                raises \in { b \in BOOLEAN : DateRangeRaises(fdf, b) } }

\* lines 82-377
Run(files, sel_channels, sel_vids, text) ==
    IF files = <<>> THEN { Nothing }
    ELSE
    LET loaded == LoadLoop(files, 1, <<>>)
    IN  IF loaded.stop_at # 0
        THEN \* lines 91-92
             { [Nothing EXCEPT !.outcome = "stopped",
                               !.schema_error_file = loaded.stop_at] }
        ELSE IF loaded.dfs = <<>>
        THEN \* lines 99-100
             { [Nothing EXCEPT !.outcome = "stopped", !.no_valid_data = TRUE] }
        ELSE Compute(Concat(loaded.dfs), Len(loaded.dfs),
                     sel_channels, sel_vids, text)

-----------------------------------------------------------------------------
(* State machine *)

Init ==
    /\ uploaded_files = <<>>
    /\ selected_channels = {}
    /\ selected_vids = {}
    /\ mapping_input = DefaultMappingText
    /\ out = Nothing

\* the sidebar widgets of lines 115-141 were rendered by the last run
WidgetsRendered == out.outcome \in {"done", "error"}

RECURSIVE TotalRows(_)
TotalRows(files) ==
    IF files = <<>> THEN 0 ELSE Len(Head(files).rows) + TotalRows(Tail(files))

\* The file list changed: the run rebuilds the multiselects, which take their
\* defaults (all options); a widget that is not rendered loses its state.
Rerun(files) ==
    LET load == LoadLoop(files, 1, <<>>)
        loaded == load.stop_at = 0 /\ load.dfs # <<>>
        df == Concat(load.dfs)
        sel_channels == IF loaded THEN channel_types(df) ELSE {}
        sel_vids == IF loaded THEN vids(df) ELSE {}
        text == IF loaded THEN mapping_input ELSE DefaultMappingText
    IN  /\ uploaded_files' = files
        /\ selected_channels' = sel_channels
        /\ selected_vids' = sel_vids
        /\ mapping_input' = text
        /\ out' \in Run(files, sel_channels, sel_vids, text)

AddFile(f) ==
    /\ Len(uploaded_files) < MaxFiles
    /\ TotalRows(uploaded_files) + Len(f.rows) <= MaxRows
    /\ Rerun(Append(uploaded_files, f))

RemoveFile(i) ==
    /\ i \in 1..Len(uploaded_files)
    /\ Rerun(SubSeq(uploaded_files, 1, i - 1)
               \o SubSeq(uploaded_files, i + 1, Len(uploaded_files)))

SelectChannels(sel) ==
    /\ WidgetsRendered
    /\ sel \subseteq out.channel_types
    /\ sel # selected_channels
    /\ selected_channels' = sel
    /\ out' \in Run(uploaded_files, sel, selected_vids, mapping_input)
    /\ UNCHANGED <<uploaded_files, selected_vids, mapping_input>>

SelectVids(sel) ==
    /\ WidgetsRendered
    /\ sel \subseteq out.vids
    /\ sel # selected_vids
    /\ selected_vids' = sel
    /\ out' \in Run(uploaded_files, selected_channels, sel, mapping_input)
    /\ UNCHANGED <<uploaded_files, selected_channels, mapping_input>>

EditMapping(text) ==
    /\ WidgetsRendered
    /\ text # mapping_input
    /\ mapping_input' = text
    /\ out' \in Run(uploaded_files, selected_channels, selected_vids, text)
    /\ UNCHANGED <<uploaded_files, selected_channels, selected_vids>>

Next ==
    \/ \E f \in Files : AddFile(f)
    \/ \E i \in 1..Len(uploaded_files) : RemoveFile(i)
    \/ \E sel \in SUBSET out.channel_types : SelectChannels(sel)
    \/ \E sel \in SUBSET out.vids : SelectVids(sel)
    \/ \E text \in MappingTexts : EditMapping(text)

Spec == Init /\ [][Next]_vars

-----------------------------------------------------------------------------
(* Properties *)

\* the uploaded rows, file after file
UploadedRows == Concat([ i \in 1..Len(uploaded_files) |-> uploaded_files[i].rows ])

\* the uploaded rows whose vendor id is selected
VendorRows ==
    SelectSeq(UploadedRows, LAMBDA r : r.vid # None /\ r.vid[1] \in selected_vids)

\* the uploaded rows whose vendor id and channel type are both selected
BothFilterRows ==
    SelectSeq(VendorRows,
              LAMBDA r : r.channel # None /\ r.channel[1] \in selected_channels)

HasBankcost(view) == \E i \in 1..Len(view) : view[i].channel = Some("BANKCOST")

\* the remittance formula of the specification on a row set, for a given
\* bank transfer charge; every term is scaled by 1000 so that no division is
\* needed
Remit1000(view, charges) ==
    LET revenue == Sum(WhereChannel(view, "C2B"), "amount")
    IN  1000 * revenue
        - ( 1000 * Abs(Sum(WhereChannel(view, "REFUND"), "amount"))
          + 1000 * Sum(view, "commission")
          + 1000 * charges + 160 * charges
          + 10 * revenue + 5 * revenue
          + 1000 * Sum(view, "vat") )

ScenarioA ==
    /\ uploaded_files =
         << [columns |-> expected_columns,
             rows |-> <<RowUniverse[1], RowUniverse[2], RowUniverse[3]>>] >>
    /\ selected_vids = {Vendlite}

\* C1: as long as the uploaded files and the vendor-id selection stay the
\* same, a run shows the same key metrics (amount_to_remit and every figure
\* it is built from), whatever the channel-type selection becomes.
C1_MetricsIgnoreChannels ==
    [][ (uploaded_files' = uploaded_files /\ selected_vids' = selected_vids)
            => out'.metrics = out.metrics ]_vars

\* C1 witness: BANKCOST and REFUND are deselected, and the key metrics still
\* count the refund and the BANKCOST row's commission.
C1_Witness ==
    /\ ScenarioA
    /\ selected_channels = {"C2B"}
    /\ out.metrics # None
    /\ out.metrics[1].figures.total_refunds = 200 * KES
    /\ out.metrics[1].figures.ipay_commission = 5 * KES
    /\ out.metrics[1].figures.amount_to_remit = 712 * KES

\* C2 (as claimed): the report's amount_to_remit is the metrics-view formula,
\* with the metrics view's unconditional bank transfer charge, on the rows
\* passing both filters.
C2_ReportIsMetricsFormula ==
    out.report # None =>
        1000 * out.report[1].figures.amount_to_remit
            = Remit1000(BothFilterRows,
                        BankChargePerFile * KES * Len(uploaded_files))

\* C2 (amended): the report's amount_to_remit is the formula on the rows
\* whose vendor id and channel type are both selected, with a bank transfer
\* charge of 50 per file if one of these rows is BANKCOST and of 0 otherwise.
C2_ReportFormula ==
    out.report # None =>
        1000 * out.report[1].figures.amount_to_remit
            = Remit1000(BothFilterRows,
                        IF HasBankcost(BothFilterRows)
                        THEN BankChargePerFile * KES * Len(uploaded_files) ELSE 0)

\* C2 witness: a report without BANKCOST rows, where the two charges differ
C2_Witness ==
    /\ ScenarioA
    /\ selected_channels = {"C2B", "REFUND"}
    /\ out.report # None
    /\ out.report[1].figures.bank_transfer_charges = 0
    /\ out.report[1].figures.amount_to_remit = 785 * KES

\* C3: the key metrics satisfy the remittance formula on the vendor-filtered
\* rows, term by term, with a bank transfer charge of 50 per uploaded file;
\* scenario A gives 712.
C3_MetricsFormula ==
    out.metrics # None =>
        LET m == out.metrics[1].figures
        IN  /\ m.total_revenue = Sum(WhereChannel(VendorRows, "C2B"), "amount")
            /\ m.total_refunds = Abs(Sum(WhereChannel(VendorRows, "REFUND"), "amount"))
            /\ m.ipay_commission = Sum(VendorRows, "commission")
            /\ m.total_vat = Sum(VendorRows, "vat")
            /\ m.bank_transfer_charges = 50 * KES * Len(uploaded_files)
            /\ 100 * m.vat_bank_transfer = 16 * m.bank_transfer_charges
            /\ 100 * m.nayax_commission = m.total_revenue
            /\ 1000 * m.bck_commission = 5 * m.total_revenue
            /\ m.amount_to_remit =
                 m.total_revenue - (m.total_refunds + m.ipay_commission
                    + m.bank_transfer_charges + m.vat_bank_transfer
                    + m.nayax_commission + m.bck_commission + m.total_vat)
            /\ 1000 * m.amount_to_remit
                 = Remit1000(VendorRows, 50 * KES * Len(uploaded_files))
            /\ (Len(uploaded_files) = 2 => m.bank_transfer_charges = 100 * KES)
            /\ (ScenarioA => m.amount_to_remit = 712 * KES)

\* C3 witness: scenario A has been computed
C3_Witness ==
    /\ ScenarioA
    /\ selected_channels = {"C2B", "REFUND", "BANKCOST"}
    /\ out.metrics # None
    /\ out.metrics[1].figures.total_revenue = 1000 * KES
    /\ out.metrics[1].figures.bank_transfer_charges = 50 * KES
    /\ out.metrics[1].figures.vat_bank_transfer = 8 * KES
    /\ out.metrics[1].figures.nayax_commission = 10 * KES
    /\ out.metrics[1].figures.bck_commission = 5 * KES

\* C4: the report's bank transfer charge is 0 if the report view has no
\* BANKCOST row, and 50 per uploaded file if it has one or more.
C4_ReportBankCharge ==
    out.report # None =>
        out.report[1].figures.bank_transfer_charges
            = IF HasBankcost(BothFilterRows)
              THEN 50 * KES * Len(uploaded_files) ELSE 0

\* C4 witness: two files and two BANKCOST rows in the report view, charged
\* as two files with a single BANKCOST row are
C4_Witness ==
    /\ Len(uploaded_files) = 2
    /\ out.report # None
    /\ Len(WhereChannel(out.filtered_df[1], "BANKCOST")) = 2
    /\ out.report[1].figures.bank_transfer_charges = 100 * KES

\* C5: with an empty vendor-id selection both views hold the rows they hold
\* when every vendor id is selected, and with an empty channel-type selection
\* the report view holds the rows it holds when every channel type is selected.
C5_EmptySelectionIsAll ==
    WidgetsRendered =>
        /\ selected_vids = {} =>
             \A o \in Run(uploaded_files, selected_channels, out.vids, mapping_input) :
                 /\ out.metrics_df = o.metrics_df
                 /\ out.filtered_df = o.filtered_df
        /\ selected_channels = {} =>
             \A o \in Run(uploaded_files, out.channel_types, selected_vids, mapping_input) :
                 out.filtered_df = o.filtered_df

\* C6: a run whose report view has no rows ends normally, with zeroed report
\* figures, a date range of N/A and the placeholder in place of the charts.
C6_EmptyReportViewNoError ==
    out.filtered_df = Some(<<>>) =>
        /\ out.outcome = "done"
        /\ out.exception = ""
        /\ out.no_data_info
        /\ out.report # None
        /\ out.report[1].date_range.kind = "N/A"
        /\ out.report[1].figures.total_revenue = 0
        /\ out.report[1].figures.amount_to_remit = 0

\* C7: when no uploaded row has a selected vendor id, the run raises no
\* error and every key metric is 0.
C7_EmptyMetricsViewZero ==
    (WidgetsRendered /\ VendorRows = <<>>) =>
        /\ out.outcome # "error"
        /\ out.metrics # None
        /\ \A k \in DOMAIN out.metrics[1].figures : out.metrics[1].figures[k] = 0

\* some uploaded file lacks a required column
LacksColumn(i) == ~ (expected_columns \subseteq uploaded_files[i].columns)

\* C8: if an uploaded file lacks a required column, the run stops on the
\* schema error naming the first such file, with no frame, view, metric,
\* report or chart computed, wherever that file stands in the upload order.
C8_SchemaMismatchHalts ==
    (\E i \in 1..Len(uploaded_files) : LacksColumn(i)) =>
        /\ out.outcome = "stopped"
        /\ out.schema_error_file \in 1..Len(uploaded_files)
        /\ LacksColumn(out.schema_error_file)
        /\ \A j \in 1..(out.schema_error_file - 1) : ~ LacksColumn(j)
        /\ out.exception = ""
        /\ ~ out.no_valid_data
        /\ out.file_count = 0
        /\ out.metrics_df = None /\ out.filtered_df = None
        /\ out.metrics = None /\ out.report = None
        /\ out.cumulative_chart = None /\ out.daily_chart = None
        /\ out.vendor_pie = None /\ out.filtered_table = None

\* C8 witness: a valid file with rows comes first, the offending file second
C8_Witness ==
    /\ Len(uploaded_files) = 2
    /\ ~ LacksColumn(1) /\ Len(uploaded_files[1].rows) = 2
    /\ LacksColumn(2)
    /\ out.outcome = "stopped"
    /\ out.schema_error_file = 2

\* evaluating the mapping text raises
Unparseable(text) == ~ IsBlank(text) /\ Eval(text).kind = "raises"

\* C9 (as claimed): whenever the mapping text is blank or unparseable and the
\* run gets to name resolution, the vendor map is the default mapping and
\* metrics and report are produced.
C9_DefaultMapWhenBlankOrBad ==
    (out.vendor_map # None /\ (IsBlank(mapping_input) \/ Unparseable(mapping_input))) =>
        /\ out.vendor_map = Some(default_vendor_map)
        /\ out.metrics # None

\* C9 (amended): an unparseable mapping text gives the default mapping
\* {254499: Vendlite} with a warning, a blank one gives the empty mapping
\* without a warning (every vendor name is then the vendor id as text); in
\* both cases name resolution is reached whenever the vendor filter has been
\* applied, the key metrics are produced, and the run goes on to the same
\* outcome, metrics and report as with the initial mapping text.
C9_MappingFallback ==
    (WidgetsRendered /\ (IsBlank(mapping_input) \/ Unparseable(mapping_input))) =>
        /\ selected_vids # {} => out.vendor_map # None
        /\ out.vendor_map # None =>
             /\ out.metrics # None
             /\ Unparseable(mapping_input) =>
                  /\ out.vendor_map = Some(default_vendor_map)
                  /\ out.mapping_warning
             /\ IsBlank(mapping_input) =>
                  /\ out.vendor_map = Some({})
                  /\ ~ out.mapping_warning
                  /\ \A i \in 1..Len(out.metrics_df[1]) :
                        out.metrics_df[1][i].vendor_name = Str(out.metrics_df[1][i].vid[1])
        /\ \E o \in Run(uploaded_files, selected_channels, selected_vids,
                        DefaultMappingText) :
             /\ o.outcome = out.outcome
             /\ o.exception = out.exception
             /\ o.metrics = out.metrics
             /\ o.report = out.report

\* C9 witness: a blank mapping text, the run completes with the empty mapping
C9_Witness ==
    /\ mapping_input = ""
    /\ out.outcome = "done"
    /\ out.vendor_map = Some({})
    /\ \E i \in 1..Len(out.filtered_df[1]) :
          out.filtered_df[1][i].vendor_name = "254499"

\* C10: the average daily revenue is the mean over the dates of dated C2B rows
\* of the C2B amount per date, and zero when the view has no dated C2B row.
C10_AvgDailyC2BOnly ==
    out.metrics # None =>
        LET c2b == SelectSeq(WhereChannel(VendorRows, "C2B"), LAMBDA r : r.date # None)
            avg == out.metrics[1].avg_daily
        IN  /\ avg.den # 0
            /\ avg.num * Cardinality(Unique(c2b, "date")) = avg.den * Sum(c2b, "amount")
            /\ c2b = <<>> => avg.num = 0

====
